---- MODULE Spec2Model ----
(***************************************************************************)
(* The topic-based publish/subscribe registry (app/core/websocket.py) and  *)
(* the monitor scheduling harness (app/core/monitor_manager.py) as a state *)
(* machine.  Every coroutine is cut at its suspension points (the awaits   *)
(* that really suspend: asyncio.sleep, websocket.send_json, await task);   *)
(* the code between two suspension points is one atomic step, as it is on  *)
(* the single-threaded asyncio event loop.                                 *)
(***************************************************************************)
EXTENDS Naturals, Integers, Sequences, FiniteSets, TLC

\* ---- bounds of the model ----
NumConns == 2
MaxTasks == 3
NumStoppers == 2
Interval == 2
MaxTime == 12

\* ---- program constants ----
GraceDelay == 1
FastInterval == 5

Conns == 1..NumConns
Topics == {"static_info", "fast_info"}
DataFns == {"get_static_info", "get_fast_dynamic_info"}
TaskIds == 1..MaxTasks
Stoppers == 1..NumStoppers

\* Python's None, and a present value
None == <<>>
Some(x) == <<x>>
Intervals == {None, Some(Interval)}

Min(a, b) == IF a < b THEN a ELSE b
Bump(n) == Min(n + 1, 2)

VARIABLES
    connections,   \* WebSocketManager.connections
    topics,        \* WebSocketManager.topics: topic -> set of connections
    monitors,      \* MonitorManager.monitors: topic -> {data_function, interval, task}
    order,         \* insertion order of the keys of MonitorManager.monitors
    static_sent,   \* MonitorManager.static_sent
    tasks,         \* the asyncio tasks and in-flight broadcast calls
    stops,         \* the stop_all() calls in progress
    ret,           \* what the call that returned in the last step returned
    hist,          \* per topic: tasks launched and broadcast calls made for it
    delivered,     \* per connection and topic: one-shot messages sent to it
    calls,         \* start_all / stop_all calls made so far
    subscribed,    \* the pairs <<connection, topic>> subscribed and not since removed
    clock,         \* the time, and the broadcast calls of periodic tasks with their times
    sysmon,        \* system_monitor: _monitoring_task, its task, stop_monitoring in progress
    obs            \* which of the history records above are kept in this run

vars == <<connections, topics, monitors, order, static_sent, tasks, stops, ret,
          hist, delivered, calls, subscribed, clock, sysmon, obs>>

registryVars == <<connections, topics, subscribed>>
harnessVars == <<monitors, order, static_sent, stops, hist, calls, clock, sysmon, obs>>

\* history h is recorded in this run
Track(h) == h \in obs

\* ------------------------------------------------------------------------
\* Records
\* ------------------------------------------------------------------------

\* A free task slot.  A task is an asyncio task of the harness (kind "oneshot"
\* for _send_one_time, "periodic" for _monitor_loop) or a broadcast() call made
\* directly by application code (kind "direct").
FreeTask ==
    [pc |-> "none", kind |-> "none", topic |-> "", interval |-> 0,
     cancel |-> FALSE, timer |-> 0, phase |-> "none",
     snap |-> {}, pending |-> {}, failed |-> {}, count |-> 0,
     outcome |-> "none", gen |-> 0, stopSeen |-> FALSE,
     lastRaised |-> "no", slept |-> 0, retryPhase |-> "none", retrySlept |-> 0,
     stamp |-> 0]

\* asyncio.create_task(...): the coroutine has not run its first step yet
NewTask(topic, interval, gen) ==
    [FreeTask EXCEPT !.pc = "start",
                     !.kind = IF interval = None THEN "oneshot" ELSE "periodic",
                     !.topic = topic,
                     !.interval = IF interval = None THEN 0 ELSE interval[1],
                     !.gen = gen]

\* a task that has finished: task.done() is true
DoneTask(r, outcome) ==
    [FreeTask EXCEPT !.pc = "done", !.kind = r.kind, !.topic = r.topic,
                     !.interval = r.interval, !.gen = r.gen, !.outcome = outcome]

IdleStop ==
    [pc |-> "idle", idx |-> 0, task |-> 0, size |-> 0, running |-> {},
     startSeen |-> FALSE, res |-> "none"]

NoRet == [op |-> "none", ok |-> TRUE, n |-> 0, topic |-> "", snap |-> {}, failed |-> {}]

\* ------------------------------------------------------------------------
\* Connection registry: WebSocketManager
\* ------------------------------------------------------------------------

\* subscribe() adds to an existing set only (a wrong variant)
SubscribeTopicsExistingOnly(tp, ws, topic) ==
    [t \in DOMAIN tp |-> IF t = topic THEN tp[t] \cup {ws} ELSE tp[t]]

\* self.topics[topic].add(websocket), creating the set when the key is absent
SubscribeTopics(tp, ws, topic) ==
    [t \in DOMAIN tp \cup {topic} |->
        IF t = topic
        THEN (IF t \in DOMAIN tp THEN tp[t] ELSE {}) \cup {ws}
        ELSE tp[t]]

\* the loop of disconnect(): discard from one topic only (a wrong variant)
DisconnectTopicsFirstOnly(tp, ws) ==
    IF \E t \in DOMAIN tp : ws \in tp[t]
    THEN LET t0 == CHOOSE t \in DOMAIN tp : ws \in tp[t]
             d == [t \in DOMAIN tp |-> IF t = t0 THEN tp[t] \ {ws} ELSE tp[t]]
         IN [t \in {u \in DOMAIN d : d[u] # {}} |-> d[t]]
    ELSE tp

\* the loop of disconnect(): discard from every topic, delete the empty ones
DisconnectTopics(tp, ws) ==
    LET d == [t \in DOMAIN tp |-> tp[t] \ {ws}]
    IN [t \in {u \in DOMAIN d : d[u] # {}} |-> d[t]]

DisconnectConns(cs, ws) == cs \ {ws}

\* unsubscribe() discards from every topic (a wrong variant)
UnsubscribeTopicsEverywhere(tp, ws, topic) == DisconnectTopics(tp, ws)

\* unsubscribe() leaves the emptied topic in place (a wrong variant)
UnsubscribeTopicsKeepKey(tp, ws, topic) ==
    [t \in DOMAIN tp |-> IF t = topic THEN tp[t] \ {ws} ELSE tp[t]]

\* unsubscribe(): discard from one topic, delete it when empty
UnsubscribeTopics(tp, ws, topic) ==
    IF topic \in DOMAIN tp
    THEN LET d == [t \in DOMAIN tp |-> IF t = topic THEN tp[t] \ {ws} ELSE tp[t]]
         IN [t \in {u \in DOMAIN d : d[u] # {}} |-> d[t]]
    ELSE tp

\* get_topics()
GetTopics(tp) == DOMAIN tp

\* "for ws in disconnected: self.disconnect(ws)" at the end of broadcast()
RECURSIVE PruneTopics(_, _)
PruneTopics(tp, dead) ==
    IF dead = {} THEN tp
    ELSE LET ws == CHOOSE w \in dead : TRUE
         IN PruneTopics(DisconnectTopics(tp, ws), dead \ {ws})

RECURSIVE PruneConns(_, _)
PruneConns(cs, dead) ==
    IF dead = {} THEN cs
    ELSE LET ws == CHOOSE w \in dead : TRUE
         IN PruneConns(DisconnectConns(cs, ws), dead \ {ws})

\* the value broadcast() returns: sent_count, one per send that did not raise
SentCountOffByOne(r) == r.count + Cardinality(r.failed)
SentCount(r) == r.count

\* connect(websocket, topic)
Connect(c, mt, ok) ==
    /\ IF ok
       THEN /\ connections' = connections \cup {c}
            /\ topics' = IF mt = None THEN topics
                         ELSE SubscribeTopics(topics, c, mt[1])
            /\ subscribed' = IF mt = None THEN subscribed
                             ELSE subscribed \cup {<<c, mt[1]>>}
       ELSE UNCHANGED registryVars
    /\ ret' = [NoRet EXCEPT !.op = "connect", !.ok = ok]
    /\ UNCHANGED <<harnessVars, tasks, delivered>>

\* subscribe(websocket, topic)
Subscribe(c, t) ==
    /\ topics' = SubscribeTopics(topics, c, t)
    /\ subscribed' = subscribed \cup {<<c, t>>}
    /\ ret' = NoRet
    /\ UNCHANGED <<connections, harnessVars, tasks, delivered>>

\* unsubscribe(websocket, topic)
Unsubscribe(c, t) ==
    /\ topics' = UnsubscribeTopics(topics, c, t)
    /\ subscribed' = subscribed \ {<<c, t>>}
    /\ ret' = IF Track("unsub")
              THEN [NoRet EXCEPT !.op = "unsubscribe", !.n = c, !.topic = t]
              ELSE NoRet
    /\ UNCHANGED <<connections, harnessVars, tasks, delivered>>

\* disconnect(websocket)
Disconnect(c) ==
    /\ connections' = DisconnectConns(connections, c)
    /\ topics' = DisconnectTopics(topics, c)
    /\ subscribed' = {p \in subscribed : p[1] # c}
    /\ ret' = [NoRet EXCEPT !.op = "disconnect", !.n = c]
    /\ UNCHANGED <<harnessVars, tasks, delivered>>


\* ------------------------------------------------------------------------
\* Scheduling harness: MonitorManager
\* ------------------------------------------------------------------------

\* a task object nothing refers to any more is dropped; a finished task that a
\* handle or an awaiting stop_all still refers to is kept
Referenced(k, mon, st) ==
    \/ \E t \in DOMAIN mon : mon[t].task = Some(k)
    \/ \E s \in Stoppers : st[s].pc = "await" /\ st[s].task = k

Normalize(tk, mon, st) ==
    [k \in TaskIds |->
        IF tk[k].pc = "done" /\ ~Referenced(k, mon, st) THEN FreeTask ELSE tk[k]]

FreeIds(tk) == {k \in TaskIds : tk[k].pc = "none"}
LeastFree(tk) == CHOOSE k \in FreeIds(tk) : \A j \in FreeIds(tk) : k <= j

\* "if topic in self.monitors" of register_monitor: never finds the topic (a
\* wrong variant)
IsRegisteredNever(mon, topic) == FALSE

\* "if topic in self.monitors" of register_monitor
IsRegistered(mon, topic) == topic \in DOMAIN mon

\* register_monitor(topic, data_function, interval)
RegisterMonitor(topic, f, i) ==
    /\ IF IsRegistered(monitors, topic)
       THEN /\ ret' = [NoRet EXCEPT !.op = "register_monitor", !.ok = FALSE,
                                    !.topic = topic]
            /\ UNCHANGED <<monitors, order, hist>>
       ELSE /\ monitors' = [t \in DOMAIN monitors \cup {topic} |->
                               IF t = topic
                               THEN [data_function |-> f, interval |-> i, task |-> None]
                               ELSE monitors[t]]
            /\ order' = IF topic \in DOMAIN monitors THEN order ELSE Append(order, topic)
            /\ hist' = [t \in DOMAIN hist \cup {topic} |->
                           IF t \in DOMAIN hist THEN hist[t]
                           ELSE [launched |-> 0, bcalls |-> 0]]
            /\ ret' = [NoRet EXCEPT !.op = "register_monitor", !.ok = TRUE,
                                    !.topic = topic]
    /\ UNCHANGED <<registryVars, static_sent, tasks, stops, delivered, calls, clock, sysmon, obs>>

\* "if monitor_info["task"] is not None: continue" of start_all, dropped (a
\* wrong variant: every call launches a task)
NeedsLaunchAlways(info) == TRUE

\* start_all launches a task for a topic only when its handle is None
NeedsLaunch(info) == info.task = None

\* the loop of start_all from position i of the dict, st = [tasks, monitors, hist]
RECURSIVE StartFrom(_, _)
StartFrom(i, st) ==
    IF i > Len(order) THEN st
    ELSE LET topic == order[i]
             info == st.monitors[topic]
         IN IF ~NeedsLaunch(info) THEN StartFrom(i + 1, st)
            ELSE LET k == LeastFree(st.tasks)
                     gen == IF Track("hist") THEN Bump(st.hist[topic].launched) ELSE 0
                 IN StartFrom(i + 1,
                      [tasks |-> [st.tasks EXCEPT ![k] = NewTask(topic, info.interval, gen)],
                       monitors |-> [st.monitors EXCEPT ![topic].task = Some(k)],
                       hist |-> [st.hist EXCEPT ![topic].launched = gen]])

\* start_all(): no await inside, so the whole call is one step
StartAll ==
    /\ Cardinality({t \in DOMAIN monitors : NeedsLaunch(monitors[t])})
          <= Cardinality(FreeIds(tasks))
    /\ LET st == StartFrom(1, [tasks |-> tasks, monitors |-> monitors, hist |-> hist])
       IN /\ tasks' = st.tasks
          /\ monitors' = st.monitors
          /\ hist' = st.hist
    /\ stops' = [s \in Stoppers |->
                    IF stops[s].pc = "await" /\ Track("running")
                    THEN [stops[s] EXCEPT !.startSeen = TRUE] ELSE stops[s]]
    /\ calls' = IF Track("calls") THEN [calls EXCEPT !.start = Bump(@)] ELSE calls
    /\ ret' = NoRet
    /\ UNCHANGED <<registryVars, order, static_sent, delivered, clock, sysmon, obs>>

\* "task is not None and not task.done()" of stop_all
IsRunning(tk, info) == info.task # None /\ tk[info.task[1]].pc # "done"

\* a stop_all call returns: the finished tasks still held by a handle have now
\* seen a whole stop_all go by
MarkStopSeen(tk, mon) ==
    [k \in TaskIds |->
        IF /\ Track("stopseen")
           /\ tk[k].pc = "done"
           /\ \E t \in DOMAIN mon : mon[t].task = Some(k)
        THEN [tk[k] EXCEPT !.stopSeen = TRUE] ELSE tk[k]]

\* the loop of stop_all of call s from position i of the dict, up to its next
\* "await task" or its return; st = [tasks, monitors, stops]
RECURSIVE StopFrom(_, _, _)
StopFrom(s, i, st) ==
    IF i > Len(order)
    THEN [st EXCEPT !.stops[s] = IdleStop,
                    !.tasks = MarkStopSeen(st.tasks, st.monitors)]
    ELSE LET info == st.monitors[order[i]]
         IN IF IsRunning(st.tasks, info)
            THEN [st EXCEPT !.tasks[info.task[1]].cancel = TRUE,
                            !.stops[s].pc = "await",
                            !.stops[s].idx = i,
                            !.stops[s].task = info.task[1]]
            ELSE StopFrom(s, i + 1, st)

\* stop_all() is called: runs up to its first "await task"
StopAllCall(s) ==
    /\ stops[s].pc = "idle"
    /\ LET running == {k \in TaskIds :
                          /\ Track("running")
                          /\ tasks[k].pc \notin {"none", "done"}
                          /\ \E t \in DOMAIN monitors : monitors[t].task = Some(k)}
           st0 == [tasks |-> tasks, monitors |-> monitors,
                   stops |-> [stops EXCEPT ![s] =
                                 [IdleStop EXCEPT !.size = Len(order),
                                                  !.running = running]]]
           st == StopFrom(s, 1, st0)
       IN /\ tasks' = Normalize(st.tasks, st.monitors, st.stops)
          /\ stops' = st.stops
          /\ ret' = NoRet
    /\ calls' = IF Track("calls") THEN [calls EXCEPT !.stop = TRUE] ELSE calls
    /\ UNCHANGED <<registryVars, monitors, order, static_sent, hist, delivered, clock, sysmon, obs>>

\* the awaited task k has finished: every stop_all awaiting it is resumed, in
\* the order of the event loop's ready queue, and each runs to its next await.
\* Line 84 clears the handle; the for loop's next() then raises RuntimeError
\* when the dict has changed size during the await.
RECURSIVE WakeFrom(_, _, _)
WakeFrom(s, k, st) ==
    IF s > NumStoppers THEN st
    ELSE IF st.stops[s].pc = "await" /\ st.stops[s].task = k
         THEN LET i == st.stops[s].idx
                  cleared == [st EXCEPT !.monitors[order[i]].task = None]
              IN IF Len(order) # st.stops[s].size
                 THEN WakeFrom(s + 1, k, [cleared EXCEPT !.stops[s] = IdleStop])
                 ELSE WakeFrom(s + 1, k, StopFrom(s, i + 1, cleared))
         ELSE WakeFrom(s + 1, k, st)

StopWake(k) ==
    /\ tasks[k].pc = "done"
    /\ \E s \in Stoppers : stops[s].pc = "await" /\ stops[s].task = k
    /\ LET st == WakeFrom(1, k, [tasks |-> tasks, monitors |-> monitors, stops |-> stops])
           raised == \E s \in Stoppers :
                        /\ stops[s].pc = "await" /\ stops[s].task = k
                        /\ Len(order) # stops[s].size
       IN /\ tasks' = Normalize(st.tasks, st.monitors, st.stops)
          /\ monitors' = st.monitors
          /\ stops' = st.stops
          /\ ret' = IF raised THEN [NoRet EXCEPT !.op = "stop_all", !.ok = FALSE]
                    ELSE NoRet
    /\ UNCHANGED <<registryVars, order, static_sent, hist, delivered, calls, clock, sysmon, obs>>

\* ------------------------------------------------------------------------
\* The monitor tasks: _send_one_time, _monitor_loop; and broadcast()
\* ------------------------------------------------------------------------

\* data_function() is invoked in phase ph and returns (ok) or raises.  The
\* record keeps whether the previous invocation raised and how long the task
\* has slept since then.
Invoke(r, ph, ok) ==
    IF Track("clock") THEN [r EXCEPT !.stamp = clock.now] ELSE
    IF ~Track("retry") THEN r ELSE
    [r EXCEPT !.retryPhase = IF r.lastRaised = "no" THEN "none" ELSE r.lastRaised,
              !.retrySlept = IF r.lastRaised = "no" THEN 0 ELSE r.slept,
              !.lastRaised = IF ok THEN "no" ELSE ph,
              !.slept = 0]

\* the error handler of the loop does not sleep (a wrong variant)
ErrorSleepSkipped(interval) == 0

\* "await asyncio.sleep(interval)" in the error handler of the loop
ErrorSleep(interval) == interval

\* the loop sleeps only the grace delay between its ticks (a wrong variant)
IntervalSleepGrace(interval) == GraceDelay

\* "await asyncio.sleep(interval)" of the loop
IntervalSleep(interval) == interval

\* the loop gives up when data_function raises (a wrong variant)
LoopCollectUncaught(r, ok) ==
    LET r1 == Invoke([r EXCEPT !.phase = "steady", !.snap = {}, !.pending = {},
                               !.failed = {}, !.count = 0], "steady", ok)
    IN IF ok THEN [r1 EXCEPT !.pc = "sleep", !.timer = IntervalSleep(r.interval)]
       ELSE DoneTask(r, "failed")

\* One pass of "while True" of _monitor_loop up to its sleep: collect, stamp,
\* then sleep(interval); when data_function raises, the handler's sleep.
LoopCollect(r, ok) ==
    LET r1 == Invoke([r EXCEPT !.phase = "steady", !.snap = {}, !.pending = {},
                               !.failed = {}, !.count = 0], "steady", ok)
    IN IF ok THEN [r1 EXCEPT !.pc = "sleep", !.timer = IntervalSleep(r.interval)]
       ELSE [r1 EXCEPT !.pc = "errsleep", !.timer = ErrorSleep(r.interval)]

\* _monitor_loop enters its loop without the initial tick (a wrong variant)
InitialCollectSkipped(r, ok1, ok2) == LoopCollect(r, ok1)

\* The first step of _monitor_loop: the initial tick up to its grace delay;
\* when data_function raises there, the handler logs and the loop is entered
\* at once.
InitialCollect(r, ok1, ok2) ==
    LET r1 == Invoke([r EXCEPT !.phase = "initial"], "initial", ok1)
    IN IF ok1 THEN [r1 EXCEPT !.pc = "grace", !.timer = GraceDelay]
       ELSE LoopCollect(r1, ok2)

\* The first step of _send_one_time
OneTimeCollect(r, sent, ok) ==
    IF r.topic \in sent THEN DoneTask(r, "skipped")
    ELSE IF ok
         THEN [Invoke([r EXCEPT !.phase = "initial"], "initial", ok)
                  EXCEPT !.pc = "grace", !.timer = GraceDelay]
         ELSE DoneTask(r, "failed")

\* the first step of a task that was not cancelled before it ran
TaskStart(k, ok1, ok2) ==
    /\ tasks[k].pc = "start"
    /\ ~tasks[k].cancel
    /\ LET r == tasks[k]
           r1 == IF r.kind = "oneshot" THEN OneTimeCollect(r, static_sent, ok1)
                 ELSE InitialCollect(r, ok1, ok2)
       IN tasks' = Normalize([tasks EXCEPT ![k] = r1], monitors, stops)
    /\ ret' = NoRet
    /\ UNCHANGED <<registryVars, harnessVars, delivered>>

\* _send_one_time never sets the delivered flag (a wrong variant)
MarkSentNever(sent, topic) == sent

\* "self.static_sent.add(topic)"
MarkSent(sent, topic) == sent \cup {topic}

\* what the caller of broadcast() does once it has returned n, to its next
\* suspension point
Resume(k, r, n, ok) ==
    CASE r.kind = "oneshot" ->
            /\ static_sent' = MarkSent(static_sent, r.topic)
            /\ tasks' = Normalize([tasks EXCEPT ![k] = DoneTask(r, "sent")],
                                  monitors, stops)
            /\ ret' = NoRet
      [] r.kind = "periodic" ->
            /\ tasks' = [tasks EXCEPT ![k] = LoopCollect(r, ok)]
            /\ ret' = NoRet
            /\ UNCHANGED static_sent
      [] OTHER ->
            /\ tasks' = Normalize([tasks EXCEPT ![k] = DoneTask(r, "sent")],
                                  monitors, stops)
            /\ ret' = [NoRet EXCEPT !.op = "broadcast", !.n = n, !.topic = r.topic,
                                    !.snap = r.snap, !.failed = r.failed]
            /\ UNCHANGED static_sent

CountCall(h, r) ==
    IF r.kind = "oneshot" /\ Track("hist") THEN [h EXCEPT ![r.topic].bcalls = Bump(@)] ELSE h

\* "if topic not in self.topics" of broadcast(): some topic has subscribers
\* (a wrong variant)
HasSubscribersAnyTopic(tp, t) == DOMAIN tp # {}

\* "if topic not in self.topics" of broadcast(), negated
HasSubscribers(tp, t) == t \in DOMAIN tp

\* broadcast() iterates the subscribers of every topic (a wrong variant)
SubscribersCopyAllTopics(tp, t) == UNION {tp[u] : u \in DOMAIN tp}

\* "self.topics[topic].copy()"
SubscribersCopy(tp, t) == IF t \in DOMAIN tp THEN tp[t] ELSE {}

\* the data broadcast() is called with is sampled at the call (a wrong variant)
MessageStampFresh(r, now) == now

\* the data broadcast() is called with is what the tick collected
MessageStamp(r, now) == r.stamp

\* the broadcast call of a periodic task, with its time and the stamp it carries
LogCall(cl, r) ==
    IF Track("clock") /\ r.kind = "periodic"
    THEN [cl EXCEPT !.log = Append(@, [at |-> cl.now, phase |-> r.phase,
                                        stamp |-> MessageStamp(r, cl.now)])]
    ELSE cl

\* a sleep ends: the grace delay or the interval sleep is followed by the call
\* of broadcast(), which returns 0 at once for a topic without subscribers
\* and otherwise starts sending to a copy of the subscriber set; the error
\* handler's sleep is followed by the next pass of the loop
TimerFire(k, ok) ==
    /\ tasks[k].pc \in {"grace", "sleep", "errsleep"}
    /\ tasks[k].timer = 0
    /\ ~tasks[k].cancel
    /\ LET r == tasks[k]
       IN IF r.pc = "errsleep"
          THEN /\ tasks' = [tasks EXCEPT ![k] = LoopCollect(r, ok)]
               /\ ret' = NoRet
               /\ UNCHANGED <<static_sent, hist, clock>>
          ELSE /\ hist' = CountCall(hist, r)
               /\ clock' = LogCall(clock, r)
               /\ IF ~HasSubscribers(topics, r.topic)
                  THEN Resume(k, r, 0, ok)
                  ELSE /\ tasks' = [tasks EXCEPT ![k] =
                                       [r EXCEPT !.pc = "send",
                                                 !.snap = SubscribersCopy(topics, r.topic),
                                                 !.pending = SubscribersCopy(topics, r.topic),
                                                 !.failed = {}, !.count = 0]]
                       /\ ret' = NoRet
                       /\ UNCHANGED static_sent
    /\ UNCHANGED <<registryVars, monitors, order, stops, calls, delivered, sysmon, obs>>

Deliver(d, r, c) ==
    IF r.kind = "oneshot" /\ Track("delivered") THEN [d EXCEPT ![c][r.topic] = Bump(@)] ELSE d

\* "await websocket.send_json(message)" for connection c returns (ok) or
\* raises; after the last one the failed connections are disconnected and
\* broadcast() returns sent_count
SendStep(k, c, ok, ok2) ==
    /\ tasks[k].pc = "send"
    /\ ~tasks[k].cancel
    /\ c \in tasks[k].pending
    /\ LET r == tasks[k]
           r1 == [r EXCEPT !.pending = @ \ {c},
                           !.count = IF ok THEN @ + 1 ELSE @,
                           !.failed = IF ok THEN @ ELSE @ \cup {c}]
       IN /\ delivered' = IF ok THEN Deliver(delivered, r, c) ELSE delivered
          /\ IF r1.pending # {}
             THEN /\ tasks' = [tasks EXCEPT ![k] = r1]
                  /\ ret' = NoRet
                  /\ UNCHANGED <<registryVars, static_sent>>
             ELSE /\ connections' = PruneConns(connections, r1.failed)
                  /\ topics' = PruneTopics(topics, r1.failed)
                  /\ subscribed' = {p \in subscribed : p[1] \notin r1.failed}
                  /\ Resume(k, r1, SentCount(r1), ok2)
    /\ UNCHANGED <<monitors, order, stops, hist, calls, clock, sysmon, obs>>

\* a cancelled task is resumed at its sleep (or before its first step) with
\* CancelledError: nothing in _send_one_time and in the initial tick catches
\* it, the loop catches it and breaks, the handler's sleep lets it through
CancelAtSleep(k) ==
    /\ tasks[k].cancel
    /\ tasks[k].pc \in {"start", "grace", "sleep", "errsleep"}
    /\ tasks' = Normalize([tasks EXCEPT ![k] = DoneTask(tasks[k], "cancelled")],
                          monitors, stops)
    /\ ret' = NoRet
    /\ UNCHANGED <<registryVars, harnessVars, delivered>>

\* a cancelled task is resumed at a send inside broadcast() with
\* CancelledError, which "except Exception" does not catch: broadcast() is
\* left at once, without disconnecting the connections whose send had failed.
\* The frame being sent to c has gone out (got) or has not.
CancelAtSend(k, c, got) ==
    /\ tasks[k].cancel
    /\ tasks[k].pc = "send"
    /\ c \in tasks[k].pending
    /\ delivered' = IF got THEN Deliver(delivered, tasks[k], c) ELSE delivered
    /\ tasks' = Normalize([tasks EXCEPT ![k] = DoneTask(tasks[k], "cancelled")],
                          monitors, stops)
    /\ ret' = NoRet
    /\ UNCHANGED <<registryVars, harnessVars>>

\* broadcast(topic, data) called directly by application code
DirectBroadcast(t) ==
    /\ FreeIds(tasks) # {}
    /\ \A k \in TaskIds : tasks[k].kind # "direct"
    /\ IF ~HasSubscribers(topics, t)
       THEN /\ ret' = [NoRet EXCEPT !.op = "broadcast", !.n = 0, !.topic = t]
            /\ UNCHANGED tasks
       ELSE /\ tasks' = [tasks EXCEPT ![LeastFree(tasks)] =
                            [FreeTask EXCEPT !.pc = "send", !.kind = "direct",
                                             !.topic = t,
                                             !.snap = SubscribersCopy(topics, t),
                                             !.pending = SubscribersCopy(topics, t)]]
            /\ ret' = NoRet
    /\ UNCHANGED <<registryVars, harnessVars, delivered>>

\* one unit of time passes: no timer that is due is overrun
Sleeping(r) == r.pc \in {"grace", "sleep", "errsleep"}

Tick ==
    /\ Track("clock") => clock.now < MaxTime
    /\ \E k \in TaskIds : Sleeping(tasks[k]) /\ tasks[k].timer > 0
    /\ \A k \in TaskIds : Sleeping(tasks[k]) /\ ~tasks[k].cancel => tasks[k].timer > 0
    /\ tasks' = [k \in TaskIds |->
                    IF Sleeping(tasks[k]) /\ tasks[k].timer > 0
                    THEN [tasks[k] EXCEPT !.timer = @ - 1,
                                          !.slept = IF Track("retry") THEN @ + 1 ELSE @]
                    ELSE tasks[k]]
    /\ clock' = IF Track("clock") THEN [clock EXCEPT !.now = @ + 1] ELSE clock
    /\ ret' = NoRet
    /\ UNCHANGED <<registryVars, monitors, order, static_sent, stops, hist, calls,
                   sysmon, obs, delivered>>

\* ------------------------------------------------------------------------
\* The legacy system monitor: system_monitor.py
\* ------------------------------------------------------------------------

SystemTopic == "system_info"

\* no task object: _monitoring_task is None
NoMonitorTask ==
    [pc |-> "none", cancel |-> FALSE, outcome |-> "none", at |-> "none",
     snap |-> {}, pending |-> {}, failed |-> {}, count |-> 0]

\* the module's state after import: no task, no stop_monitoring() in progress;
\* res is what the last stop_monitoring() call ended with
IdleMonitor ==
    [handle |-> "none", task |-> NoMonitorTask, stop |-> "idle", res |-> "none"]

\* is_monitoring(): "_monitoring_task is not None and not _monitoring_task.done()"
IsMonitoring(m) == m.handle = "task" /\ m.task.pc # "done"

\* start_monitoring(interval): a synchronous call.  A call made while a
\* stop_monitoring() is awaiting a task that has already finished is left out.
StartMonitoring ==
    /\ sysmon.stop = "idle" \/ IsMonitoring(sysmon)
    /\ IF IsMonitoring(sysmon)
       THEN /\ ret' = [NoRet EXCEPT !.op = "start_monitoring", !.ok = FALSE]
            /\ UNCHANGED sysmon
       ELSE /\ sysmon' = [sysmon EXCEPT !.handle = "task",
                                        !.task = [NoMonitorTask EXCEPT !.pc = "start"]]
            /\ ret' = [NoRet EXCEPT !.op = "start_monitoring", !.ok = TRUE]
    /\ UNCHANGED <<registryVars, monitors, order, static_sent, stops, hist, calls,
                   clock, obs, tasks, delivered>>

\* one pass of "while True" of monitor_loop from its top (the task's first
\* step, or the end of a sleep) to its next suspension point:
\* get_system_info() returns (ok) or raises; then broadcast() returns 0 at
\* once, which leads to the interval sleep, or starts sending
MonitorRun(ok) ==
    /\ sysmon.task.pc \in {"start", "sleep", "errsleep"}
    /\ ~sysmon.task.cancel
    /\ sysmon' =
          [sysmon EXCEPT !.task =
              IF ~ok THEN [@ EXCEPT !.pc = "errsleep"]
              ELSE IF ~HasSubscribers(topics, SystemTopic)
                   THEN [@ EXCEPT !.pc = "sleep"]
                   ELSE [@ EXCEPT !.pc = "send",
                                  !.snap = SubscribersCopy(topics, SystemTopic),
                                  !.pending = SubscribersCopy(topics, SystemTopic),
                                  !.failed = {}, !.count = 0]]
    /\ ret' = NoRet
    /\ UNCHANGED <<registryVars, monitors, order, static_sent, stops, hist, calls,
                   clock, obs, tasks, delivered>>

\* a send of the monitor's broadcast returns (ok) or raises; after the last
\* one the failed connections are disconnected, broadcast() returns and the
\* loop goes to its interval sleep
MonitorSend(c, ok) ==
    /\ sysmon.task.pc = "send"
    /\ ~sysmon.task.cancel
    /\ c \in sysmon.task.pending
    /\ LET r1 == [sysmon.task EXCEPT !.pending = @ \ {c},
                                     !.count = IF ok THEN @ + 1 ELSE @,
                                     !.failed = IF ok THEN @ ELSE @ \cup {c}]
       IN IF r1.pending # {}
          THEN /\ sysmon' = [sysmon EXCEPT !.task = r1]
               /\ UNCHANGED registryVars
          ELSE /\ connections' = PruneConns(connections, r1.failed)
               /\ topics' = PruneTopics(topics, r1.failed)
               /\ subscribed' = {p \in subscribed : p[1] \notin r1.failed}
               /\ sysmon' = [sysmon EXCEPT !.task =
                                 [NoMonitorTask EXCEPT !.pc = "sleep"]]
    /\ ret' = NoRet
    /\ UNCHANGED <<monitors, order, static_sent, stops, hist, calls, clock, obs,
                   tasks, delivered>>

\* how the task ends when CancelledError is raised at pc: inside the "try" of
\* the loop (the broadcast, the interval sleep) "except asyncio.CancelledError"
\* catches it and breaks, and the coroutine returns; before the first step and
\* in the sleep of the error handler nothing catches it
CancelOutcome(pc) == IF pc \in {"send", "sleep"} THEN "returned" ELSE "cancelled"

\* the cancelled task is resumed with CancelledError
MonitorCancelled ==
    /\ sysmon.task.cancel
    /\ sysmon.task.pc \in {"start", "send", "sleep", "errsleep"}
    /\ sysmon' = [sysmon EXCEPT !.task =
                      [NoMonitorTask EXCEPT !.pc = "done",
                                            !.at = sysmon.task.at,
                                            !.outcome = CancelOutcome(sysmon.task.pc)]]
    /\ ret' = NoRet
    /\ UNCHANGED <<registryVars, monitors, order, static_sent, stops, hist, calls,
                   clock, obs, tasks, delivered>>

\* stop_monitoring() is called: returns False when no task is running,
\* otherwise requests the cancellation and awaits the task
StopMonitoringCall ==
    /\ sysmon.stop = "idle"
    /\ IF ~IsMonitoring(sysmon)
       THEN /\ sysmon' = [sysmon EXCEPT !.res = "False"]
            /\ ret' = [NoRet EXCEPT !.op = "stop_monitoring", !.ok = FALSE]
       ELSE /\ sysmon' = [sysmon EXCEPT !.task.cancel = TRUE,
                                        !.task.at = sysmon.task.pc,
                                        !.stop = "await", !.res = "none"]
            /\ ret' = NoRet
    /\ UNCHANGED <<registryVars, monitors, order, static_sent, stops, hist, calls,
                   clock, obs, tasks, delivered>>

\* "await _monitoring_task" ends.  When the coroutine returned, the handle is
\* cleared and True is returned.  When the task ended cancelled, the await
\* raises CancelledError, which "except Exception" does not catch: it leaves
\* stop_monitoring() with the handle still set.
StopMonitoringWake ==
    /\ sysmon.stop = "await"
    /\ sysmon.task.pc = "done"
    /\ IF sysmon.task.outcome = "returned"
       THEN /\ sysmon' = [IdleMonitor EXCEPT !.res = "True"]
            /\ ret' = [NoRet EXCEPT !.op = "stop_monitoring", !.ok = TRUE]
       ELSE /\ sysmon' = [sysmon EXCEPT !.stop = "idle", !.res = "raised"]
            /\ ret' = [NoRet EXCEPT !.op = "stop_monitoring", !.ok = FALSE]
    /\ UNCHANGED <<registryVars, monitors, order, static_sent, stops, hist, calls,
                   clock, obs, tasks, delivered>>

\* ------------------------------------------------------------------------
\* Specifications
\* ------------------------------------------------------------------------

\* the registrations of startup_event: static_info once, fast_info periodic
Deployed(t) ==
    IF t = "static_info" THEN <<"get_static_info", None>>
    ELSE <<"get_fast_dynamic_info", Some(Interval)>>

Init0 ==
    /\ connections = {}
    /\ topics = [t \in {} |-> {}]
    /\ monitors = [t \in {} |-> 0]
    /\ order = <<>>
    /\ static_sent = {}
    /\ tasks = [k \in TaskIds |-> FreeTask]
    /\ stops = [s \in Stoppers |-> IdleStop]
    /\ ret = NoRet
    /\ hist = [t \in {} |-> 0]
    /\ delivered = [c \in Conns |-> [t \in Topics |-> 0]]
    /\ calls = [start |-> 0, stop |-> FALSE]
    /\ subscribed = {}
    /\ clock = [now |-> 0, log |-> <<>>]
    /\ sysmon = IdleMonitor

Init == Init0 /\ obs = {"running"}
InitPlain == Init0 /\ obs = {}
InitOnce == Init0 /\ obs = {"hist", "calls", "delivered", "stopseen"}
InitLoop == Init0 /\ obs = {"hist", "retry"}
InitClock == Init0 /\ obs = {"clock"}
InitUnsub == Init0 /\ obs = {"unsub"}

\* the scheduling harness for the topics TS, with stop_all callers SS
Core(TS, SS) ==
    \/ \E t \in TS, f \in DataFns, i \in Intervals :
          /\ t \notin DOMAIN monitors => <<f, i>> = Deployed(t)
          /\ RegisterMonitor(t, f, i)
    \/ StartAll
    \/ \E s \in SS : StopAllCall(s)
    \/ \E k \in TaskIds : StopWake(k)
    \/ \E k \in TaskIds, ok1 \in BOOLEAN, ok2 \in BOOLEAN : TaskStart(k, ok1, ok2)
    \/ \E k \in TaskIds, ok \in BOOLEAN : TimerFire(k, ok)
    \/ \E k \in TaskIds : CancelAtSleep(k)
    \/ Tick

\* the clients CS of the topics TS, and the sends to them
Clients(TS, CS) ==
    \/ \E c \in CS, t \in TS : Subscribe(c, t)
    \/ \E c \in CS : Disconnect(c)
    \/ \E k \in TaskIds, c \in CS, ok \in BOOLEAN, ok2 \in BOOLEAN : SendStep(k, c, ok, ok2)
    \/ \E k \in TaskIds, c \in CS, got \in BOOLEAN : CancelAtSend(k, c, got)

Next == Core(Topics, Stoppers) \/ Clients({"fast_info"}, {1})
NextOnce == Core({"static_info"}, {1}) \/ Clients({"static_info"}, Conns)
NextLoop == Core({"fast_info"}, {1}) \/ Clients({"fast_info"}, Conns)

Spec == Init /\ [][Next]_vars

\* the registry alone, with application code calling broadcast() directly
NextRegistry ==
    \/ \E c \in Conns, mt \in {None} \cup {Some(t) : t \in Topics}, ok \in BOOLEAN :
          Connect(c, mt, ok)
    \/ \E c \in Conns, t \in Topics : Subscribe(c, t)
    \/ \E c \in Conns, t \in Topics : Unsubscribe(c, t)
    \/ \E c \in Conns : Disconnect(c)
    \/ \E t \in Topics : DirectBroadcast(t)
    \/ \E k \in TaskIds, c \in Conns, ok \in BOOLEAN : SendStep(k, c, ok, TRUE)

\* one periodic topic with a snapshot function and sends that never fail, one
\* client, and the clock
NextClock ==
    \/ \E i \in {Some(Interval), Some(FastInterval)} :
          RegisterMonitor("fast_info", "get_fast_dynamic_info", i)
    \/ StartAll
    \/ \E k \in TaskIds : TaskStart(k, TRUE, TRUE)
    \/ \E k \in TaskIds : TimerFire(k, TRUE)
    \/ Tick
    \/ Subscribe(1, "fast_info")
    \/ \E k \in TaskIds : SendStep(k, 1, TRUE, TRUE)

SpecClock == InitClock /\ [][NextClock]_vars

\* both topics with one stop_all caller and one client of both
NextTasks == Core(Topics, {1}) \/ Clients(Topics, {1})
SpecTasks == InitPlain /\ [][NextTasks]_vars

\* the legacy system monitor with the clients of its topic
NextMonitor ==
    \/ StartMonitoring
    \/ StopMonitoringCall
    \/ StopMonitoringWake
    \/ \E ok \in BOOLEAN : MonitorRun(ok)
    \/ \E c \in Conns, ok \in BOOLEAN : MonitorSend(c, ok)
    \/ MonitorCancelled
    \/ \E c \in Conns : Subscribe(c, SystemTopic)
    \/ \E c \in Conns : Disconnect(c)

SpecMonitor == InitPlain /\ [][NextMonitor]_vars

SpecOnce == InitOnce /\ [][NextOnce]_vars
SpecLoop == InitLoop /\ [][NextLoop]_vars

SpecRegistry == InitPlain /\ [][NextRegistry]_vars

\* the registry's membership operations alone
NextUnsub ==
    \/ \E c \in Conns, mt \in {None} \cup {Some(t) : t \in Topics}, ok \in BOOLEAN :
          Connect(c, mt, ok)
    \/ \E c \in Conns, t \in Topics : Subscribe(c, t)
    \/ \E c \in Conns, t \in Topics : Unsubscribe(c, t)
    \/ \E c \in Conns : Disconnect(c)

SpecUnsub == InitUnsub /\ [][NextUnsub]_vars

\* ------------------------------------------------------------------------
\* Properties
\* ------------------------------------------------------------------------

Live(r) == r.pc \notin {"none", "done"}
OneShotTopics == {t \in DOMAIN monitors : monitors[t].interval = None}
PeriodicTopics == {t \in DOMAIN monitors : monitors[t].interval # None}
SubscribedTo(tp, t) == IF t \in DOMAIN tp THEN tp[t] ELSE {}

\* C1: a broadcast(topic, data) call over a snapshot of N subscribers of which
\* M failed their send returns exactly N - M; when it returns, each failing
\* connection is in no topic's subscriber set and not in the connection set;
\* and no step of the call removes one of the other connections from the topic.
C1_BroadcastReturnsNMinusM ==
    [][\A k \in TaskIds :
          (tasks[k].kind = "direct" /\ tasks[k].pc = "send" /\ tasks'[k] # tasks[k])
          => LET r == tasks[k]
                 returned == tasks'[k].pc # "send"
                 failedNow == IF returned THEN ret'.failed ELSE tasks'[k].failed
             IN /\ \A c \in r.snap \ failedNow :
                      c \in SubscribedTo(topics, r.topic)
                         => c \in SubscribedTo(topics', r.topic)
                /\ returned =>
                      /\ ret'.op = "broadcast"
                      /\ ret'.snap = r.snap
                      /\ ret'.failed \subseteq r.snap
                      /\ ret'.n = Cardinality(r.snap) - Cardinality(ret'.failed)
                      /\ \A c \in ret'.failed :
                            /\ c \notin connections'
                            /\ \A t \in DOMAIN topics' : c \notin topics'[t]
      ]_vars

\* a broadcast over two subscribers has returned 1: one send failed, and the
\* other connection is still subscribed
C1_Witness ==
    /\ ret.op = "broadcast"
    /\ Cardinality(ret.snap) >= 2
    /\ Cardinality(ret.failed) = 1
    /\ ret.n = Cardinality(ret.snap) - 1
    /\ ret.snap \ ret.failed \subseteq SubscribedTo(topics, ret.topic)
    /\ ret.failed \cap connections = {}

\* C2: while stop_all has never been called, a one-shot topic has had at most
\* one task launched and at most one broadcast call made for it, however often
\* start_all was called; and exactly one once its task has ended after sending.
C2_OneShotOnceAcrossStarts ==
    \A t \in OneShotTopics :
        ~calls.stop =>
            /\ hist[t].launched <= 1
            /\ hist[t].bcalls <= 1
            /\ \A c \in Conns : delivered[c][t] <= 1
            /\ \A k \in TaskIds :
                  (monitors[t].task = Some(k) /\ tasks[k].outcome = "sent")
                     => hist[t].bcalls = 1

\* start_all was called twice with no stop_all, and the one-shot task has sent
C2_Witness ==
    /\ calls.start = 2
    /\ ~calls.stop
    /\ \E t \in OneShotTopics, k \in TaskIds :
          /\ monitors[t].task = Some(k)
          /\ tasks[k].outcome = "sent"
          /\ hist[t].launched = 1
          /\ hist[t].bcalls = 1
          /\ \E c \in Conns : delivered[c][t] = 1

\* C3 (as claimed): no connection is ever sent a one-shot topic's message more
\* than once, over every sequence of start_all and stop_all calls.
C3_DeliveredAtMostOnce ==
    \A c \in Conns, t \in Topics : delivered[c][t] <= 1

\* C4: register_monitor on a registered topic returns false and changes
\* nothing in the harness; on an unregistered topic it returns true and stores
\* (data_function, interval) with no task, leaving every other entry as it was.
C4_FirstRegistrationWins ==
    [][\A t \in Topics, f \in DataFns, i \in Intervals :
          RegisterMonitor(t, f, i) =>
             IF t \in DOMAIN monitors
             THEN /\ ret'.ok = FALSE
                  /\ monitors' = monitors
                  /\ order' = order
             ELSE /\ ret'.ok = TRUE
                  /\ DOMAIN monitors' = DOMAIN monitors \cup {t}
                  /\ monitors'[t] = [data_function |-> f, interval |-> i, task |-> None]
                  /\ \A u \in DOMAIN monitors : monitors'[u] = monitors[u]
      ]_vars

\* a second registration of a topic whose task was started has returned
\* false, and the entry still holds the first registration and the handle
C4_Witness ==
    /\ ret.op = "register_monitor"
    /\ ret.ok = FALSE
    /\ ret.topic \in DOMAIN monitors
    /\ monitors[ret.topic].task # None
    /\ <<monitors[ret.topic].data_function, monitors[ret.topic].interval>>
          = Deployed(ret.topic)

\* C5: disconnect(c) leaves c out of the connection set and out of every
\* topic's subscriber set, keeps exactly the topics that still have another
\* subscriber, with the other subscribers unchanged, and a second
\* disconnect(c) would change nothing.
C5_DisconnectRemovesEverywhere ==
    [][ret'.op = "disconnect" =>
          LET c == ret'.n
          IN /\ c \notin connections'
             /\ connections' = connections \ {c}
             /\ GetTopics(topics') = {t \in GetTopics(topics) : topics[t] \ {c} # {}}
             /\ \A t \in GetTopics(topics') : topics'[t] = topics[t] \ {c}
             /\ DisconnectConns(connections', c) = connections'
             /\ DisconnectTopics(topics', c) = topics'
      ]_vars

\* a connection that was the only subscriber of a topic has been disconnected:
\* the topic is gone, another topic remains
C5_Witness ==
    /\ ret.op = "disconnect"
    /\ ret.n \notin connections
    /\ GetTopics(topics) # {}
    /\ GetTopics(topics) # Topics
    /\ \A t \in GetTopics(topics) : ret.n \notin topics[t]

\* C6: for every topic at most one harness task that has not finished exists.
C6_AtMostOneTaskPerTopic ==
    \A t \in Topics :
        Cardinality({k \in TaskIds :
                        /\ Live(tasks[k])
                        /\ tasks[k].kind \in {"oneshot", "periodic"}
                        /\ tasks[k].topic = t}) <= 1

\* two stop_all calls are awaiting a cancelled task while start_all has
\* already relaunched another topic
C6_Witness ==
    /\ \A s \in Stoppers : stops[s].pc = "await"
    /\ \E s \in Stoppers, k \in TaskIds, j \in 1..Len(order) :
          /\ stops[s].startSeen
          /\ j < stops[s].idx
          /\ tasks[k].topic = order[j]
          /\ Live(tasks[k])
          /\ ~tasks[k].cancel

\* C7 (as claimed): when a stop_all call that no start_all interleaved with
\* returns, every task that was running when it was called has terminated and
\* no task handle holds it any more.
C7_StopAllClearsHandles ==
    [][\A s \in Stoppers :
          (/\ stops[s].pc = "await"
           /\ stops'[s].pc = "idle"
           /\ Len(order) = stops[s].size
           /\ ~stops[s].startSeen)
          => \A k \in stops[s].running :
                /\ ~Live(tasks'[k])
                /\ \A t \in DOMAIN monitors' : monitors'[t].task # Some(k)
      ]_vars

\* C8 (as claimed): a one-shot task that ended because its snapshot function
\* raised leaves the delivered flag unset, and a start_all that follows a
\* stop_all launches a new task for the topic.
C8_FailedOneShotIsRelaunched ==
    [][\A t \in OneShotTopics, k \in TaskIds :
          (monitors[t].task = Some(k) /\ tasks[k].outcome = "failed")
          => /\ t \notin static_sent
             /\ (StartAll /\ tasks[k].stopSeen)
                   => \E j \in TaskIds :
                         monitors'[t].task = Some(j) /\ tasks'[j].pc = "start"
      ]_vars

\* C9: a periodic task, relaunched or not, leaves its first step into the
\* grace delay of one unit in the initial phase, and enters the steady-state
\* loop only from the end of the initial tick's broadcast (or at once when the
\* initial collection raised), wherever the previous task was cancelled.
C9_RestartFromInitialTick ==
    [][\A k \in TaskIds :
          (tasks[k].kind = "periodic" /\ tasks'[k].kind = "periodic")
          => /\ (tasks[k].pc = "start" /\ tasks'[k].pc = "grace")
                   => tasks'[k].timer = GraceDelay /\ tasks'[k].phase = "initial"
             /\ (tasks[k].pc = "start" /\ Live(tasks'[k]) /\ tasks'[k].pc # "start")
                   => tasks'[k].pc = "grace" \/ tasks'[k].retryPhase = "initial"
             /\ (tasks[k].phase # "steady" /\ tasks'[k].phase = "steady")
                   => \/ tasks[k].pc = "grace" /\ tasks[k].timer = 0
                      \/ tasks[k].pc = "send" /\ tasks[k].phase = "initial"
                      \/ tasks[k].pc = "start" /\ tasks'[k].retryPhase = "initial"
      ]_vars

\* a relaunched periodic task is at the end of its grace delay, about to make
\* its initial broadcast
C9_Witness ==
    \E k \in TaskIds :
        /\ tasks[k].kind = "periodic"
        /\ tasks[k].gen = 2
        /\ tasks[k].pc = "grace"
        /\ tasks[k].timer = 0
        /\ tasks[k].phase = "initial"

\* C10 (as claimed): whenever the snapshot function of a periodic topic has
\* raised, in the initial tick or in a steady-state tick, the task has not
\* ended and its next invocation came only after a full interval of sleep.
C10_RetryAfterFullInterval ==
    \A k \in TaskIds :
        tasks[k].kind = "periodic" =>
            /\ tasks[k].pc = "done" => tasks[k].outcome = "cancelled"
            /\ tasks[k].retryPhase # "none" => tasks[k].retrySlept >= tasks[k].interval

\* C10 (amended): a periodic task ends only by cancellation; after the
\* snapshot function raised in a steady-state tick the next invocation comes
\* after a full interval of sleep; after it raised in the initial tick the
\* next invocation (the first of the loop) comes at once, with no sleep.
C10_RetryAfterIntervalInLoop ==
    \A k \in TaskIds :
        tasks[k].kind = "periodic" =>
            /\ tasks[k].pc = "done" => tasks[k].outcome = "cancelled"
            /\ tasks[k].retryPhase = "steady" => tasks[k].retrySlept >= tasks[k].interval
            /\ tasks[k].retryPhase = "initial" => tasks[k].retrySlept = 0

\* a steady-state tick's snapshot raised and the next invocation has just
\* been made, a full interval later
C10_Witness ==
    \E k \in TaskIds :
        /\ tasks[k].kind = "periodic"
        /\ tasks[k].retryPhase = "steady"
        /\ tasks[k].retrySlept = tasks[k].interval
        /\ tasks[k].interval = Interval

\* C11: a periodic topic with interval I started at time 0, with a snapshot
\* function and sends that take no time: its first broadcast is made at time 1
\* (the grace delay), before a full interval has gone by, and its k-th later
\* one at time 1 + k*I; the sends of a broadcast are made at the time of the
\* call; with interval 5 the first two are at 1 and 6.
C11_BroadcastTimes ==
    \A t \in PeriodicTopics :
        LET I == monitors[t].interval[1]
            n == Len(clock.log)
        IN /\ \A i \in 1..n : clock.log[i].at = GraceDelay + (i - 1) * I
           /\ n >= 1 => clock.log[1].at = 1 /\ clock.log[1].at < I
           /\ (I = 5 /\ n >= 2) => clock.log[2].at = 6
           /\ \A k \in TaskIds :
                 tasks[k].pc = "send" => n >= 1 /\ clock.log[n].at = clock.now

\* the topic of interval 5 is sending its second message to its subscriber,
\* at time 6
C11_Witness ==
    /\ "fast_info" \in DOMAIN monitors
    /\ monitors["fast_info"].interval = Some(FastInterval)
    /\ Len(clock.log) = 2
    /\ clock.now = 6
    /\ \E k \in TaskIds : tasks[k].pc = "send" /\ tasks[k].pending = {1}

\* C12: broadcast(topic, data) on a topic without subscribers returns 0 at
\* once: no send is started, and the connection set, the topic sets and the
\* messages delivered are as before.
C12_EmptyBroadcastReturnsZero ==
    [][\A t \in Topics :
          (DirectBroadcast(t) /\ SubscribedTo(topics, t) = {})
          => /\ ret'.op = "broadcast"
             /\ ret'.topic = t
             /\ ret'.n = 0
             /\ tasks' = tasks
             /\ delivered' = delivered
             /\ connections' = connections
             /\ topics' = topics
      ]_vars

\* broadcast on a topic without subscribers has returned 0 while another
\* topic has subscribers
C12_Witness ==
    /\ ret.op = "broadcast"
    /\ ret.n = 0
    /\ ret.snap = {}
    /\ ret.topic \notin GetTopics(topics)
    /\ GetTopics(topics) # {}
    /\ connections # {}

\* C13: connect(c, topic?) whose accept fails returns false and leaves the
\* connection set and every topic set as they were; when accept succeeds it
\* returns true, c is in the connection set and, with a topic given, in that
\* topic's subscriber set.
C13_ConnectAllOrNothing ==
    [][ret'.op = "connect" =>
          \A c \in Conns, mt \in {None} \cup {Some(t) : t \in Topics}, ok \in BOOLEAN :
             Connect(c, mt, ok)
             => IF ok
                THEN /\ ret'.ok
                     /\ c \in connections'
                     /\ mt # None => c \in SubscribedTo(topics', mt[1])
                ELSE /\ ~ret'.ok
                     /\ connections' = connections
                     /\ topics' = topics
      ]_vars

\* connect has returned false for a connection whose accept failed, with
\* other connections registered and subscribed
C13_Witness ==
    /\ ret.op = "connect"
    /\ ~ret.ok
    /\ connections # {}
    /\ connections # Conns
    /\ GetTopics(topics) = Topics

\* C14: a connection is in a topic's subscriber set exactly when it was
\* subscribed to it (by subscribe or by connect with a topic) and has not been
\* unsubscribed from it or disconnected (by disconnect or by the pruning at
\* the end of a broadcast) since.
C14_SubscribedIffInTopicSet ==
    \A c \in Conns, t \in Topics :
        c \in SubscribedTo(topics, t) <=> <<c, t>> \in subscribed

\* a broadcast has pruned a failing connection and another subscription is
\* still in place
C14_Witness ==
    /\ ret.op = "broadcast"
    /\ ret.failed # {}
    /\ subscribed # {}
    /\ \A p \in subscribed : p[1] \notin ret.failed

\* C15: every topic key of the registry has a subscriber: get_topics() never
\* lists a topic with an empty subscriber set.
C15_NoEmptyTopic ==
    \A t \in GetTopics(topics) : topics[t] # {}

\* every subscriber of a topic has failed its send and was pruned: the topic
\* is gone, another topic remains
C15_Witness ==
    /\ ret.op = "broadcast"
    /\ ret.snap # {}
    /\ ret.failed = ret.snap
    /\ ret.topic \notin GetTopics(topics)
    /\ GetTopics(topics) # {}

\* C16: for a periodic topic no two broadcast calls are in progress at once,
\* restarts included; and a task collects for its next tick only when it is in
\* the middle of neither a sleep nor a broadcast: at its first step, at the
\* end of a sleep whose broadcast returned at once, at the end of the
\* error handler's sleep, or at the return of the last send of its broadcast.
C16_BroadcastsNeverOverlap ==
    [][/\ \A t \in Topics :
             Cardinality({k \in TaskIds : /\ tasks'[k].kind = "periodic"
                                          /\ tasks'[k].topic = t
                                          /\ tasks'[k].pc = "send"}) <= 1
       /\ \A k \in TaskIds :
             (/\ tasks'[k].kind = "periodic"
              /\ tasks'[k].pc \in {"sleep", "errsleep"}
              /\ tasks'[k].timer = tasks'[k].interval
              /\ ~(tasks[k].pc = tasks'[k].pc /\ tasks[k].timer = tasks'[k].timer))
             => /\ tasks[k].kind = "periodic"
                /\ ~tasks[k].cancel
                /\ \/ tasks[k].pc = "start"
                   \/ Sleeping(tasks[k]) /\ tasks[k].timer = 0
                   \/ tasks[k].pc = "send" /\ Cardinality(tasks[k].pending) = 1
      ]_vars

\* a stop_all call that has cancelled the periodic task and cleared its handle
\* is still awaiting another task, and the relaunched periodic task is sending
C16_Witness ==
    \E s \in Stoppers, k \in TaskIds, j \in 1..Len(order) :
        /\ stops[s].pc = "await"
        /\ stops[s].startSeen
        /\ j < stops[s].idx
        /\ tasks[k].topic = order[j]
        /\ tasks[k].kind = "periodic"
        /\ tasks[k].pc = "send"
        /\ ~tasks[k].cancel

\* C17: each steady-state tick collects, then sleeps the interval, then
\* broadcasts: the data of a steady-state broadcast was collected exactly one
\* interval before the call, never after the sleep, and a task in its
\* interval sleep has collected the tick's data before the sleep began.
C17_BroadcastCarriesDataFromBeforeSleep ==
    \A t \in PeriodicTopics :
        LET I == monitors[t].interval[1]
        IN /\ \A i \in 1..Len(clock.log) :
                 clock.log[i].phase = "steady"
                    => /\ clock.log[i].stamp + I = clock.log[i].at
                       /\ clock.log[i].stamp < clock.log[i].at
           /\ \A k \in TaskIds :
                 (tasks[k].pc = "sleep" /\ tasks[k].topic = t)
                    => tasks[k].stamp + (I - tasks[k].timer) = clock.now

\* the third broadcast of the topic, a steady-state one, is being sent to the
\* subscriber with data collected one interval earlier
C17_Witness ==
    /\ Len(clock.log) = 3
    /\ clock.log[3].phase = "steady"
    /\ clock.log[3].stamp = clock.now - Interval
    /\ clock.log[3].stamp > 0
    /\ \E k \in TaskIds :
          /\ tasks[k].pc = "send"
          /\ tasks[k].pending = {1}
          /\ tasks[k].interval = Interval

\* C18: a periodic task ends only while a cancellation request is pending on
\* it, and never with a failure: no exception of the snapshot function or of
\* broadcast ends it.  A one-shot task never loops: its first step ends it
\* (flag set, or snapshot raised) or starts the grace delay, the end of the
\* grace delay ends it or starts its one broadcast, and the return of that
\* broadcast ends it.
C18_OnlyCancellationEndsPeriodic ==
    [][\A k \in TaskIds :
          /\ (tasks[k].kind = "periodic" /\ Live(tasks[k]) /\ ~Live(tasks'[k]))
                => /\ tasks[k].cancel
                   /\ tasks'[k].pc = "done" => tasks'[k].outcome = "cancelled"
          /\ (tasks[k].kind = "oneshot" /\ Live(tasks[k]) /\ tasks'[k].pc # tasks[k].pc)
                => \/ ~Live(tasks'[k])
                   \/ tasks[k].pc = "start" /\ tasks'[k].pc = "grace"
                   \/ tasks[k].pc = "grace" /\ tasks'[k].pc = "send"
      ]_vars

\* the periodic task is in the error handler's sleep after its snapshot
\* function raised, and the one-shot task has ended by itself after sending
C18_Witness ==
    \E k \in TaskIds, j \in TaskIds :
        /\ tasks[k].kind = "periodic"
        /\ tasks[k].pc = "errsleep"
        /\ ~tasks[k].cancel
        /\ tasks[j].kind = "oneshot"
        /\ tasks[j].pc = "done"
        /\ tasks[j].outcome = "sent"
        /\ "static_info" \in static_sent

\* C19 (as claimed): a task on which a cancellation request is pending ends
\* at the step that resumes it, at whichever suspension point it is, and every
\* stop_all call that ends, ends by returning, never by raising.
C19_StopAllReturnsWithoutRaising ==
    [][/\ \A k \in TaskIds :
             (tasks[k].cancel /\ Live(tasks[k]) /\ tasks'[k].pc # tasks[k].pc)
                => ~Live(tasks'[k])
       /\ \A s \in Stoppers :
             (stops[s].pc = "await" /\ stops'[s].pc = "idle")
                => ~(ret'.op = "stop_all" /\ ~ret'.ok)
      ]_vars

\* C20 (as claimed): when a broadcast call ends, by returning or by the
\* cancellation of its task at a later send, every connection whose send has
\* failed in it is in no topic's subscriber set and not in the connection set.
C20_FailedConnectionsPruned ==
    [][\A k \in TaskIds :
          (tasks[k].pc = "send" /\ tasks'[k].pc # "send")
          => \A c \in tasks[k].failed :
                /\ c \notin connections'
                /\ \A t \in DOMAIN topics' : c \notin topics'[t]
      ]_vars

\* C21: unsubscribe(c, t) removes c from t's subscriber set and deletes t when
\* the set becomes empty; the connection set and every other topic are as
\* before; when c is not subscribed to t (t absent included) the registry is
\* unchanged.
C21_UnsubscribeChangesOnlyItsTopic ==
    [][ret'.op = "unsubscribe" =>
          \A c \in Conns, t \in Topics :
             Unsubscribe(c, t)
             => /\ connections' = connections
                /\ SubscribedTo(topics', t) = SubscribedTo(topics, t) \ {c}
                /\ t \in GetTopics(topics') <=> SubscribedTo(topics, t) \ {c} # {}
                /\ \A u \in Topics \ {t} :
                      /\ u \in GetTopics(topics') <=> u \in GetTopics(topics)
                      /\ SubscribedTo(topics', u) = SubscribedTo(topics, u)
                /\ c \notin SubscribedTo(topics, t) => topics' = topics
      ]_vars

\* a connection subscribed to both topics was the last subscriber of the one
\* it has unsubscribed from: that topic is gone, the other still holds it
C21_Witness ==
    /\ ret.op = "unsubscribe"
    /\ ret.topic \notin GetTopics(topics)
    /\ ret.n \in connections
    /\ \E u \in GetTopics(topics) : ret.n \in topics[u]

\* C22 (as claimed): every connection in some topic's subscriber set is in
\* the connection set.
C22_SubscribersAreConnected ==
    \A t \in GetTopics(topics) : topics[t] \subseteq connections

\* C23 (as claimed): no send of a broadcast of topic t goes to a connection
\* that is not subscribed to t at the time of the send, having unsubscribed or
\* been disconnected since the broadcast was called.
C23_NoSendAfterUnsubscribe ==
    [][\A k \in TaskIds, c \in Conns :
          (tasks[k].pc = "send" /\ \E ok2 \in BOOLEAN : SendStep(k, c, TRUE, ok2))
          => c \in SubscribedTo(topics, tasks[k].topic)
      ]_vars

\* C23 (amended): a broadcast sends to the connections of the copy of the
\* subscriber set it took when it was called, and to no other: the copy is the
\* subscriber set at the call and never changes, and the connections still to
\* be sent to are connections of the copy, whatever has been unsubscribed or
\* disconnected since.  So a connection that unsubscribed or disconnected
\* before the call is never sent to by it; one that did so after the call is
\* still sent to.
C23_SendsFollowTheSnapshot ==
    [][/\ \A t \in Topics :
             (tasks' # tasks /\ DirectBroadcast(t))
             => \E k \in TaskIds :
                   /\ tasks[k].pc = "none"
                   /\ tasks'[k].pc = "send"
                   /\ tasks'[k].snap = SubscribedTo(topics, t)
                   /\ tasks'[k].pending = SubscribedTo(topics, t)
       /\ \A k \in TaskIds :
             (tasks[k].pc = "send" /\ tasks'[k].pc = "send")
             => /\ tasks'[k].snap = tasks[k].snap
                /\ tasks'[k].pending \subseteq tasks[k].pending
                /\ tasks[k].pending \subseteq tasks[k].snap
      ]_vars

\* a broadcast suspended at a send still has to send to a connection of its
\* copy that has been unsubscribed or disconnected since the call
C23_Witness ==
    \E k \in TaskIds, c \in Conns :
        /\ tasks[k].pc = "send"
        /\ c \in tasks[k].pending
        /\ Cardinality(tasks[k].snap) >= 2
        /\ tasks[k].pending # tasks[k].snap
        /\ c \notin SubscribedTo(topics, tasks[k].topic)

\* C24: the delivered flag of a one-shot topic is set at the step at which the
\* broadcast call of its task returns, whatever the count (zero subscribers
\* included), and at no other step; it is never cleared; and once it is set no
\* connection is sent the topic's message any more and no broadcast of the
\* topic is in progress.
C24_FlagSetWhenBroadcastReturns ==
    [][\A t \in OneShotTopics :
          LET returns == \E k \in TaskIds :
                            /\ tasks[k].kind = "oneshot"
                            /\ tasks[k].topic = t
                            /\ Live(tasks[k])
                            /\ tasks'[k].pc = "done"
                            /\ tasks'[k].outcome = "sent"
          IN /\ (t \notin static_sent /\ t \in static_sent') <=> returns
             /\ t \in static_sent
                   => /\ t \in static_sent'
                      /\ \A c \in Conns : delivered'[c][t] = delivered[c][t]
                      /\ \A k \in TaskIds :
                            tasks'[k].topic = t => tasks'[k].pc # "send"
      ]_vars

\* the flag was set by a broadcast that found no subscriber; a connection has
\* subscribed since and, a restart later, has still received nothing
C24_Witness ==
    \E t \in OneShotTopics :
        /\ t \in static_sent
        /\ hist[t].bcalls = 1
        /\ \A c \in Conns : delivered[c][t] = 0
        /\ SubscribedTo(topics, t) # {}
        /\ calls.stop
        /\ calls.start = 2

\* C25 (as claimed): a stop_monitoring() call made while the task is running
\* ends by returning True, with the task finished and the handle cleared, at
\* whichever suspension point of monitor_loop the cancellation arrives (the
\* broadcast, the interval sleep, the sleep of the error handler); a call made
\* while no task is running returns False.
C25_StopMonitoringReturnsTrue ==
    [][/\ (/\ sysmon.stop = "await" /\ sysmon'.stop = "idle"
           /\ sysmon.task.at \in {"send", "sleep", "errsleep"})
             => /\ sysmon'.res = "True"
                /\ ret'.op = "stop_monitoring" /\ ret'.ok
                /\ sysmon'.handle = "none"
                /\ ~IsMonitoring(sysmon')
       /\ (sysmon.stop = "idle" /\ sysmon'.stop = "idle" /\ ret'.op = "stop_monitoring")
             => /\ ~IsMonitoring(sysmon)
                /\ sysmon'.res = "False"
                /\ sysmon'.task = sysmon.task
      ]_vars

====
